---------------------------- MODULE Spec2Model ----------------------------
(***************************************************************************)
(* Frequency list builder of Emmio (the C trie program, src/unnamed/       *)
(* part_000): a character stream is cut into words of Armenian letters,    *)
(* each word is walked into a binary trie, BITS_PER_CHARACTER bits per     *)
(* letter, the node reached at the end of a word counts it, and process    *)
(* collects the counted nodes into the frequency list that qsort orders    *)
(* and the write loop prints.                                              *)
(*                                                                         *)
(* Scaling.  The program's MAX_WORD_SIZE is 50 and its BUFFER_SIZE 1024;   *)
(* the model keeps every comparison against them as the code writes it     *)
(* and gives them small values, so that a run reaches the length cap and a *)
(* word spans two fgetws chunks within MaxInput characters.  The codec     *)
(* constants and BITS_PER_CHARACTER have the program's values.             *)
(*                                                                         *)
(* C arrays are functions on 0..n-1.  The two wchar_t buffers the code     *)
(* indexes with MAX_WORD_SIZE (word in main, str in process) carry one     *)
(* more slot, MAX_WORD_SIZE, standing for the memory directly behind the   *)
(* array: a store there is out of bounds, is recorded in stray, and is     *)
(* read back by the wcscpy that follows it.                                *)
(***************************************************************************)
EXTENDS Integers, Sequences, FiniteSets, TLC

\* ------------------------------------------------------------------ bounds
\* Longest input stream the model reads.
MaxInput == 7

\* Longest input stream of the codec runs, which read every letter.
MaxCodecInput == 4

\* Longest input stream of the runs that look at the whole trie in every
\* state.
MaxShortInput == 5

\* The width of int in the runs that bring a counter to its greatest value.
IntBitsScaled == 2

\* #define MAX_WORD_SIZE 50, scaled.
MAX_WORD_SIZE == 2

\* #define BUFFER_SIZE 1024, scaled: fgetws delivers at most BUFFER_SIZE - 1
\* characters per call.
BUFFER_SIZE == 3

\* --------------------------------------------------------------- constants
BITS_PER_CHARACTER == 6

NULL == 0

\* The width of int (struct BinaryTree, line 31: int count).
INT_BITS == 32

\* L'\x0561' .. L'\x0587', the lowercase block, and L'\x0531' .. L'\x0556',
\* the uppercase block.
LowerFirst == 1377
LowerLast == 1415
UpperFirst == 1329
UpperLast == 1366

\* L'\n', which ends an fgetws chunk.
Newline == 10

\* src/go/text.go, line 43: the distance from an uppercase letter to its
\* lowercase form.
CaseOffset == 48

\* Content of storage that was never written.
Indeterminate == -1

\* The characters the input streams of the model are made of: two lowercase
\* letters, the uppercase form of the first, and the line end as the
\* character outside the alphabet.
Chars == {LowerFirst, LowerFirst + 1, UpperFirst, Newline}

\* The input streams of the codec runs for letter number k: its lowercase
\* form, the character 0x30 below it, and the line end.
CodecChars(k) == {LowerFirst + k, LowerFirst + k - CaseOffset, Newline}

\* How far below the uppercase block and above the lowercase block the
\* characters of the range runs go.
RangeMargin == 2

\* One more than the number of the last lowercase letter.
Letters == LowerLast - LowerFirst + 1

VARIABLES
    build,              \* what the build fixes: the width of int (int_bits)
    go,                 \* the Go program src/go/text.go: its runs (GoFresh)
    file,               \* input_file: the characters it is made of (chars)
                        \* and the longest content the model reads (size)
    pc,                 \* position in main
    consumed,           \* the characters fgetws has taken from input_file
    eof,                \* end-of-file indicator of input_file
    buffer,             \* the chunk of the last fgetws, without its L'\0'
    buffer_index,
    tree,               \* the heap of struct BinaryTree, in malloc order
    current,
    word,
    word_index,
    unique_words,
    str,
    occurrences,
    occurrences_index,
    emitted,            \* the nodes process emitted, in order (history)
    output,             \* the lines written to output_file
    stray               \* the arrays that were stored to out of bounds

vars == <<build, go, file, pc, consumed, eof, buffer, buffer_index, tree, current,
          word,
          word_index, unique_words, str, occurrences, occurrences_index,
          emitted, output, stray>>

\* ------------------------------------------------------------------- codec
\* classify with the lowercase base subtracted in both branches.
classify_one_base(character) ==
    IF LowerFirst <= character /\ character <= LowerLast
        THEN character - LowerFirst
        ELSE IF UpperFirst <= character /\ character <= UpperLast
            THEN character - LowerFirst
            ELSE -1

\* classify with a lowercase range that ends one character late.
classify_wide(character) ==
    IF LowerFirst <= character /\ character <= LowerLast + 1
        THEN character - LowerFirst
        ELSE IF UpperFirst <= character /\ character <= UpperLast
            THEN character - UpperFirst
            ELSE -1

\* classify with an uppercase range that ends one character late, as long
\* as the lowercase range.
classify_upper_wide(character) ==
    IF LowerFirst <= character /\ character <= LowerLast
        THEN character - LowerFirst
        ELSE IF UpperFirst <= character /\ character <= UpperLast + 1
            THEN character - UpperFirst
            ELSE -1

\* main, lines 99-109: the case-insensitive code of a character, -1 for a
\* character that is not of interest.
classify(character) ==
    IF LowerFirst <= character /\ character <= LowerLast
        THEN character - LowerFirst
        ELSE IF UpperFirst <= character /\ character <= UpperLast
            THEN character - UpperFirst
            ELSE -1

\* decode with the uppercase base.
decode_upper(code) == code + UpperFirst

\* process, line 49: the character written for a code.
decode(code) == code + LowerFirst

\* line 123: code & k ? 1 : 0, k a power of two.
BitOf(code, k) == IF (code \div k) % 2 = 1 THEN 1 ELSE 0

\* line 120: 1 << (BITS_PER_CHARACTER - 1).
TopBit == 2 ^ (BITS_PER_CHARACTER - 1)

\* ------------------------------------------------------------- arithmetic
\* The greatest and the least int of the build.
IntMax == (2 ^ (build.int_bits - 2) - 1) * 2 + 1

IntMin == -IntMax - 1

\* An int sum or difference: the value, brought back into the range of int
\* modulo 2 ^ int_bits where it is outside.
WrapInt(v) ==
    IF v > IntMax THEN IntMin + (v - IntMax - 1)
    ELSE IF v < IntMin THEN IntMax - (IntMin - v - 1)
    ELSE v

\* -------------------------------------------------------------------- trie
\* (struct BinaryTree) {{NULL, NULL}, 0}
NewNode == [subtrees |-> [bit \in 0..1 |-> NULL], count |-> 0]

\* The root, allocated first (line 78).
binary_tree == 1

\* The bit loop without the test for an existing child: every bit allocates.
RECURSIVE InsertBits_always_new(_, _, _, _)
InsertBits_always_new(t, cur, code, k) ==
    IF k < 1
        THEN [tree |-> t, current |-> cur]
        ELSE LET t1 == Append([t EXCEPT ![cur].subtrees[BitOf(code, k)] =
                                   Len(t) + 1], NewNode)
             IN InsertBits_always_new(t1, Len(t1), code, k \div 2)

\* The bit loop with a new child hung under both edges of the cursor.
RECURSIVE InsertBits_both_edges(_, _, _, _)
InsertBits_both_edges(t, cur, code, k) ==
    IF k < 1
        THEN [tree |-> t, current |-> cur]
        ELSE LET bit == BitOf(code, k)
                 missing == t[cur].subtrees[bit] = NULL
                 t1 == IF missing
                           THEN Append([t EXCEPT ![cur].subtrees =
                                           [b \in 0..1 |-> Len(t) + 1]],
                                       NewNode)
                           ELSE t
             IN InsertBits_both_edges(t1, t1[cur].subtrees[bit], code,
                                      k \div 2)

\* The bit loop with the initialiser of lines 127-128 behind the test: a
\* child that is there is made a node without children and counter again.
RECURSIVE InsertBits_reinit(_, _, _, _)
InsertBits_reinit(t, cur, code, k) ==
    IF k < 1
        THEN [tree |-> t, current |-> cur]
        ELSE LET bit == BitOf(code, k)
                 missing == t[cur].subtrees[bit] = NULL
                 t1 == IF missing
                           THEN Append([t EXCEPT ![cur].subtrees[bit] = Len(t) + 1],
                                       NewNode)
                           ELSE [t EXCEPT ![t[cur].subtrees[bit]] = NewNode]
             IN InsertBits_reinit(t1, t1[cur].subtrees[bit], code, k \div 2)

\* The bit loop ending at mask 2: it walks one bit less than it should.
RECURSIVE InsertBits_short(_, _, _, _)
InsertBits_short(t, cur, code, k) ==
    IF k < 2
        THEN [tree |-> t, current |-> cur]
        ELSE LET bit == BitOf(code, k)
                 missing == t[cur].subtrees[bit] = NULL
                 t1 == IF missing
                           THEN Append([t EXCEPT ![cur].subtrees[bit] = Len(t) + 1],
                                       NewNode)
                           ELSE t
             IN InsertBits_short(t1, t1[cur].subtrees[bit], code, k \div 2)

\* Lines 120-131: the bit loop from mask k down to 1.  t is the heap, cur the
\* cursor; a missing child is allocated behind the last node.
RECURSIVE InsertBits(_, _, _, _)
InsertBits(t, cur, code, k) ==
    IF k < 1
        THEN [tree |-> t, current |-> cur]
        ELSE LET bit == BitOf(code, k)
                 missing == t[cur].subtrees[bit] = NULL
                 t1 == IF missing
                           THEN Append([t EXCEPT ![cur].subtrees[bit] = Len(t) + 1],
                                       NewNode)
                           ELSE t
             IN InsertBits(t1, t1[cur].subtrees[bit], code, k \div 2)

\* The cap test as src/unnamed/part_001 writes it (line 99).
CapReached_late(index) == index > MAX_WORD_SIZE

\* Line 113: the length cap test that guards the skip branch.
CapReached(index) == index > MAX_WORD_SIZE - 1

\* A store a[i] = v into a buffer declared with MAX_WORD_SIZE elements.
StoreAt(a, i, v) == IF i \in DOMAIN a THEN [a EXCEPT ![i] = v] ELSE a

InBounds(i) == 0 <= i /\ i < MAX_WORD_SIZE

\* wchar_t word[MAX_WORD_SIZE], not initialised.
FreshBuffer == [i \in 0..MAX_WORD_SIZE |-> Indeterminate]

\* ----------------------------------------------------------------- reading
\* buffer[i]: fgetws ends the chunk with L'\0'.
BufferAt(i) == IF i < Len(buffer) THEN buffer[i + 1] ELSE 0

character == BufferAt(buffer_index)

\* The chunks one fgetws call can deliver: at most BUFFER_SIZE - 1
\* characters, a line end only as the last one.
Chunks ==
    {c \in UNION {[1..n -> file.chars] : n \in 1..(BUFFER_SIZE - 1)} :
        \A i \in 1..(Len(c) - 1) : c[i] # Newline}

\* src/go/text.go, lines 28-30, in front of its first run: the run, the
\* number of characters it has read, word, the map words, keys, and the
\* lines each run has written.
GoFresh ==
    [run |-> 1, pos |-> 0, word |-> <<>>, words |-> <<>>, keys |-> <<>>,
     lines |-> <<>>]

\* Lines 78-86 and the globals: the root alone, nothing read or collected.
Fresh ==
    /\ go = GoFresh
    /\ consumed = <<>>
    /\ eof = FALSE
    /\ buffer = <<>>
    /\ buffer_index = 0
    /\ tree = <<NewNode>>
    /\ current = binary_tree
    /\ word = FreshBuffer
    /\ word_index = 0
    /\ unique_words = 0
    /\ str = FreshBuffer
    /\ occurrences = <<>>
    /\ occurrences_index = 0
    /\ emitted = <<>>
    /\ output = <<>>
    /\ stray = {}

\* The state in front of the read loop, input_file open.
Start ==
    /\ build = [int_bits |-> INT_BITS]
    /\ pc = "fgetws"
    /\ Fresh

Init ==
    /\ file = [chars |-> Chars, size |-> MaxInput]
    /\ Start

\* The files of Init, up to MaxShortInput characters.
InitShort ==
    /\ file = [chars |-> Chars, size |-> MaxShortInput]
    /\ Start

\* The runs of a build with a narrow int: the files of one letter and the
\* line end, in which a word occurs more often than IntMax times.
InitInt ==
    /\ file = [chars |-> {LowerFirst, Newline}, size |-> MaxInput]
    /\ build = [int_bits |-> IntBitsScaled]
    /\ pc = "fgetws"
    /\ Fresh

\* The codec runs: the file is made of the two forms of one letter.
InitCodec ==
    /\ \E k \in 0..(Letters - 1) :
          file = [chars |-> CodecChars(k), size |-> MaxCodecInput]
    /\ Start

\* The range runs: the file is made of one character, taken from two below
\* the uppercase block to two above the lowercase block, and the line end.
InitRange ==
    /\ \E c \in (UpperFirst - RangeMargin)..(LowerLast + RangeMargin) :
          file = [chars |-> {c, Newline}, size |-> MaxCodecInput]
    /\ Start

\* A character outside both ranges that is no line end.
Other == UpperFirst - 1

\* The files of a letter, another character and the line end, in which a
\* run begins at any place of a chunk.
InitChunk ==
    /\ file = [chars |-> {LowerFirst, Other, Newline}, size |-> MaxInput]
    /\ Start

\* The files of one letter and the line end, up to MaxShortInput characters.
InitLive ==
    /\ file = [chars |-> {LowerFirst, Newline}, size |-> MaxShortInput]
    /\ Start

\* The files of a letter, the character U+0000 and the line end.
InitNul ==
    /\ file = [chars |-> {LowerFirst, 0, Newline}, size |-> MaxInput]
    /\ Start

\* The runs from line 76 on: the file of input_file_path is there (found)
\* or not.
InitOpen ==
    /\ \E found \in BOOLEAN :
          file = [chars |-> {LowerFirst, Newline}, size |-> MaxCodecInput,
                  found |-> found]
    /\ build = [int_bits |-> INT_BITS]
    /\ pc = "fopen"
    /\ Fresh

\* Line 76: fopen returns the stream, or NULL for a file that cannot be
\* opened; the result is not tested and main goes on to the read loop.
Fopen ==
    /\ pc = "fopen"
    /\ pc' = IF file.found THEN "fgetws" ELSE "null_stream"
    /\ UNCHANGED <<build, go, file, consumed, eof, buffer, buffer_index, tree, current, word,
                   word_index, unique_words, str, occurrences,
                   occurrences_index, emitted, output, stray>>

\* Line 92 with input_file = NULL: the behaviour of fgetws on a null stream
\* is undefined.  The call ends the run (a signal, nothing reported), or
\* it fails and returns NULL, and main goes on behind the loop as for an
\* empty file (the fclose(NULL) of line 147 returning as well).
FgetwsNullStream ==
    /\ pc = "null_stream"
    /\ pc' \in {"crashed", "process"}
    /\ UNCHANGED <<build, go, file, consumed, eof, buffer, buffer_index, tree, current, word,
                   word_index, unique_words, str, occurrences,
                   occurrences_index, emitted, output, stray>>

\* Line 92, fgetws returns the buffer: it read chunk, and stopped at the
\* line end, at BUFFER_SIZE - 1 characters, or (a shorter chunk without a
\* line end) at the end of the file.
FgetwsChunk(chunk) ==
    /\ pc = "fgetws"
    /\ ~eof
    /\ Len(consumed) + Len(chunk) <= file.size
    /\ consumed' = consumed \o chunk
    /\ eof' = (Len(chunk) < BUFFER_SIZE - 1 /\ chunk[Len(chunk)] # Newline)
    /\ buffer' = chunk
    /\ buffer_index' = 0
    /\ pc' = "scan"
    /\ UNCHANGED <<build, go, file, tree, current, word, word_index, unique_words, str,
                   occurrences, occurrences_index, emitted, output, stray>>

\* Line 92, fgetws returns NULL at the end of the file; line 147.
FgetwsNull ==
    /\ pc = "fgetws"
    /\ eof' = TRUE
    /\ pc' = "process"
    /\ UNCHANGED <<build, go, file, consumed, buffer, buffer_index, tree, current, word,
                   word_index, unique_words, str, occurrences,
                   occurrences_index, emitted, output, stray>>

\* A chunk end that ends the word in progress without counting it.
ScanEnd_new_word ==
    /\ pc = "scan"
    /\ character = 0
    /\ pc' = "fgetws"
    /\ current' = binary_tree
    /\ word_index' = 0
    /\ UNCHANGED <<build, go, file, consumed, eof, buffer, buffer_index, tree,
                   word, unique_words, str, occurrences, occurrences_index,
                   emitted, output, stray>>

\* Line 97: the L'\0' of the chunk ends the scan loop.
ScanEnd ==
    /\ pc = "scan"
    /\ character = 0
    /\ pc' = "fgetws"
    /\ UNCHANGED <<build, go, file, consumed, eof, buffer, buffer_index, tree, current, word,
                   word_index, unique_words, str, occurrences,
                   occurrences_index, emitted, output, stray>>

\* A skip branch that takes the character behind the cap for the start of a
\* new word.
Skip_new_word ==
    /\ pc = "scan"
    /\ character # 0
    /\ classify(character) >= 0
    /\ CapReached(word_index)
    /\ current' = binary_tree
    /\ word_index' = 0
    /\ buffer_index' = buffer_index + 1
    /\ UNCHANGED <<build, go, file, pc, consumed, eof, buffer, tree, word, unique_words,
                   str, occurrences, occurrences_index, emitted, output,
                   stray>>

\* A skip branch that stores nothing and still walks the character into
\* the trie.
Skip_walks ==
    /\ pc = "scan"
    /\ character # 0
    /\ classify(character) >= 0
    /\ CapReached(word_index)
    /\ LET r == InsertBits(tree, current, classify(character), TopBit)
       IN /\ tree' = r.tree
          /\ current' = r.current
    /\ buffer_index' = buffer_index + 1
    /\ UNCHANGED <<build, go, file, pc, consumed, eof, buffer, word, word_index,
                   unique_words, str, occurrences, occurrences_index, emitted,
                   output, stray>>

\* A skip branch that goes on to the next iteration without advancing
\* buffer_index.
Skip_stays ==
    /\ pc = "scan"
    /\ character # 0
    /\ classify(character) >= 0
    /\ CapReached(word_index)
    /\ UNCHANGED vars

\* Lines 112-116: a character of interest behind the length cap.
Skip ==
    /\ pc = "scan"
    /\ character # 0
    /\ classify(character) >= 0
    /\ CapReached(word_index)
    /\ buffer_index' = buffer_index + 1
    /\ UNCHANGED <<build, go, file, pc, consumed, eof, buffer, tree, current, word, word_index,
                   unique_words, str, occurrences, occurrences_index, emitted,
                   output, stray>>

\* A letter branch that stores and walks the character and leaves the word
\* index where it is.
Letter_keeps_index ==
    /\ pc = "scan"
    /\ character # 0
    /\ classify(character) >= 0
    /\ ~CapReached(word_index)
    /\ word' = StoreAt(word, word_index, character)
    /\ stray' = IF InBounds(word_index) THEN stray ELSE stray \cup {"word"}
    /\ LET r == InsertBits(tree, current, classify(character), TopBit)
       IN /\ tree' = r.tree
          /\ current' = r.current
    /\ buffer_index' = buffer_index + 1
    /\ UNCHANGED <<build, go, file, pc, consumed, eof, buffer, word_index,
                   unique_words, str, occurrences, occurrences_index,
                   emitted, output>>

\* Lines 112, 117-131, 144: a character of interest is stored and walked
\* into the trie.
Letter ==
    /\ pc = "scan"
    /\ character # 0
    /\ classify(character) >= 0
    /\ ~CapReached(word_index)
    /\ word' = StoreAt(word, word_index, character)
    /\ stray' = IF InBounds(word_index) THEN stray ELSE stray \cup {"word"}
    /\ word_index' = word_index + 1
    /\ LET r == InsertBits(tree, current, classify(character), TopBit)
       IN /\ tree' = r.tree
          /\ current' = r.current
    /\ buffer_index' = buffer_index + 1
    /\ UNCHANGED <<build, go, file, pc, consumed, eof, buffer, unique_words, str, occurrences,
                   occurrences_index, emitted, output>>

\* A boundary branch without the test for a word in progress.
Boundary_always_counts ==
    /\ pc = "scan"
    /\ character # 0
    /\ classify(character) < 0
    /\ unique_words' = IF tree[current].count = 0
                           THEN unique_words + 1
                           ELSE unique_words
    /\ tree' = [tree EXCEPT ![current].count = @ + 1]
    /\ word' = StoreAt(StoreAt(word, word_index, 0), 0, 0)
    /\ stray' = IF InBounds(word_index) THEN stray ELSE stray \cup {"word"}
    /\ current' = binary_tree
    /\ word_index' = 0
    /\ buffer_index' = buffer_index + 1
    /\ UNCHANGED <<build, go, file, pc, consumed, eof, buffer, str, occurrences,
                   occurrences_index, emitted, output>>

\* A boundary branch that counts the word and leaves the cursor and the
\* word index where they are.
Boundary_no_reset ==
    /\ pc = "scan"
    /\ character # 0
    /\ classify(character) < 0
    /\ IF word_index > 0
          THEN /\ unique_words' = IF tree[current].count = 0
                                      THEN unique_words + 1
                                      ELSE unique_words
               /\ tree' = [tree EXCEPT ![current].count = @ + 1]
          ELSE UNCHANGED <<unique_words, tree>>
    /\ buffer_index' = buffer_index + 1
    /\ UNCHANGED <<build, go, file, pc, consumed, eof, buffer, current, word, word_index,
                   str, occurrences, occurrences_index, emitted, output,
                   stray>>

\* A boundary branch that sets the counter to 1.
Boundary_set_one ==
    /\ pc = "scan"
    /\ character # 0
    /\ classify(character) < 0
    /\ IF word_index > 0
          THEN /\ unique_words' = IF tree[current].count = 0
                                      THEN unique_words + 1
                                      ELSE unique_words
               /\ tree' = [tree EXCEPT ![current].count = 1]
               /\ word' = StoreAt(StoreAt(word, word_index, 0), 0, 0)
               /\ stray' = IF InBounds(word_index)
                               THEN stray
                               ELSE stray \cup {"word"}
          ELSE /\ word' = StoreAt(word, 0, 0)
               /\ UNCHANGED <<unique_words, tree, stray>>
    /\ current' = binary_tree
    /\ word_index' = 0
    /\ buffer_index' = buffer_index + 1
    /\ UNCHANGED <<build, go, file, pc, consumed, eof, buffer, str, occurrences,
                   occurrences_index, emitted, output>>

\* A boundary branch that takes every word for a new one.
Boundary_every_word_new ==
    /\ pc = "scan"
    /\ character # 0
    /\ classify(character) < 0
    /\ IF word_index > 0
          THEN /\ unique_words' = unique_words + 1
               /\ tree' = [tree EXCEPT ![current].count = @ + 1]
               /\ word' = StoreAt(StoreAt(word, word_index, 0), 0, 0)
               /\ stray' = IF InBounds(word_index)
                               THEN stray
                               ELSE stray \cup {"word"}
          ELSE /\ word' = StoreAt(word, 0, 0)
               /\ UNCHANGED <<unique_words, tree, stray>>
    /\ current' = binary_tree
    /\ word_index' = 0
    /\ buffer_index' = buffer_index + 1
    /\ UNCHANGED <<build, go, file, pc, consumed, eof, buffer, str,
                   occurrences, occurrences_index, emitted, output>>

\* Lines 132-144: any other character ends the word in progress.  The
\* increment of a counter that holds the greatest int overflows, which is
\* undefined: the sum wraps, or the run is ended there (a trapping build).
Boundary ==
    /\ pc = "scan"
    /\ character # 0
    /\ classify(character) < 0
    /\ pc' \in IF word_index > 0 /\ tree[current].count = IntMax
                   THEN {"scan", "crashed"}
                   ELSE {"scan"}
    /\ IF word_index > 0
          THEN /\ unique_words' = IF tree[current].count = 0
                                      THEN unique_words + 1
                                      ELSE unique_words
               /\ tree' = IF pc' = "crashed"
                              THEN tree
                              ELSE [tree EXCEPT
                                       ![current].count = WrapInt(@ + 1)]
               /\ word' = StoreAt(StoreAt(word, word_index, 0), 0, 0)
               /\ stray' = IF InBounds(word_index)
                               THEN stray
                               ELSE stray \cup {"word"}
          ELSE /\ word' = StoreAt(word, 0, 0)
               /\ UNCHANGED <<unique_words, tree, stray>>
    /\ current' = binary_tree
    /\ word_index' = 0
    /\ buffer_index' = buffer_index + 1
    /\ UNCHANGED <<build, go, file, consumed, eof, buffer, str, occurrences,
                   occurrences_index, emitted, output>>

Read ==
    \/ \E chunk \in Chunks : FgetwsChunk(chunk)
    \/ FgetwsNull
    \/ ScanEnd
    \/ Skip
    \/ Letter
    \/ Boundary

\* -------------------------------------------------------------- collecting
\* struct Occurrences in malloc'ed storage, not initialised.
FreshEntry ==
    [word |-> [i \in 0..(MAX_WORD_SIZE - 1) |-> Indeterminate],
     count |-> Indeterminate]

\* wcslen of a buffer: the index of its first L'\0'; the slot behind the
\* array is read when the array holds none.
Wcslen(a) ==
    IF \E i \in DOMAIN a : a[i] = 0
        THEN CHOOSE i \in DOMAIN a : a[i] = 0 /\ \A j \in 0..(i - 1) : a[j] # 0
        ELSE MAX_WORD_SIZE

\* Lines 57-59 at node n.  ps carries what process works on: the buffer its
\* word parameter points to, and the globals occurrences and
\* occurrences_index.  wcscpy copies Wcslen characters and the L'\0'; for a
\* word of MAX_WORD_SIZE characters the L'\0' goes to word[MAX_WORD_SIZE],
\* behind the array: where the member count directly follows the array
\* (ps.overlap) that store sets the count, stored in line 57, to 0; where
\* the struct is laid out otherwise the count is kept.
Emit(ps, n) ==
    LET i == ps.occurrences_index
        len == Wcslen(ps.word)
        text == [j \in 0..(MAX_WORD_SIZE - 1) |->
                    IF j < len THEN ps.word[j]
                    ELSE IF j = len THEN 0
                    ELSE ps.occurrences[i].word[j]]
        over == len > MAX_WORD_SIZE - 1
        cnt == IF over /\ ps.overlap THEN 0 ELSE tree[n].count
    IN IF i \in DOMAIN ps.occurrences
           THEN [ps EXCEPT !.occurrences[i] = [word |-> text, count |-> cnt],
                           !.occurrences_index = i + 1,
                           !.emitted = Append(@, n),
                           !.stray = IF over THEN @ \cup {"occurrences.word"}
                                             ELSE @]
           ELSE [ps EXCEPT !.occurrences_index = i + 1,
                           !.emitted = Append(@, n),
                           !.stray = @ \cup {"occurrences"}]

\* The stores as print of src/c/text.c makes them (lines 21-22), one slot up.
WriteChar_one_up(ps, index, code) ==
    LET at == index \div BITS_PER_CHARACTER
    IN [ps EXCEPT !.word = StoreAt(StoreAt(@, at, decode(code)), at + 1, 0),
                  !.stray = IF InBounds(at + 1) THEN @ ELSE @ \cup {"str"}]

\* Lines 48-52: at a character boundary the code of the last
\* BITS_PER_CHARACTER bits is written into the buffer, and the L'\0' behind.
WriteChar(ps, index, code) ==
    LET at == index \div BITS_PER_CHARACTER
    IN [ps EXCEPT !.word = StoreAt(StoreAt(@, at - 1, decode(code)), at, 0),
                  !.stray = IF InBounds(at) THEN @ ELSE @ \cup {"str"}]

\* A process that descends into child 1 before child 0.
RECURSIVE process_one_first(_, _, _, _)
process_one_first(node, ps, index, code) ==
    LET boundary == index > 0 /\ index % BITS_PER_CHARACTER = 0
        ps1 == IF boundary THEN WriteChar(ps, index, code) ELSE ps
        code1 == IF boundary THEN 0 ELSE code
    IN IF node = NULL
           THEN ps1
           ELSE LET ps2 == IF tree[node].count > 0 THEN Emit(ps1, node) ELSE ps1
                    ps3 == IF tree[node].subtrees[1] # NULL
                               THEN process_one_first(tree[node].subtrees[1],
                                                      ps2, index + 1,
                                                      code1 * 2 + 1)
                               ELSE ps2
                IN IF tree[node].subtrees[0] # NULL
                       THEN process_one_first(tree[node].subtrees[0], ps3,
                                              index + 1, code1 * 2 + 0)
                       ELSE ps3

\* Lines 45-67.
RECURSIVE process(_, _, _, _)
process(node, ps, index, code) ==
    LET boundary == index > 0 /\ index % BITS_PER_CHARACTER = 0
        ps1 == IF boundary THEN WriteChar(ps, index, code) ELSE ps
        code1 == IF boundary THEN 0 ELSE code
    IN IF node = NULL
           THEN ps1
           ELSE LET ps2 == IF tree[node].count > 0 THEN Emit(ps1, node) ELSE ps1
                    ps3 == IF tree[node].subtrees[0] # NULL
                               THEN process(tree[node].subtrees[0], ps2,
                                            index + 1, code1 * 2 + 0)
                               ELSE ps2
                IN IF tree[node].subtrees[1] # NULL
                       THEN process(tree[node].subtrees[1], ps3,
                                    index + 1, code1 * 2 + 1)
                       ELSE ps3

\* A collection that takes the counts out of the trie: the counters are 0
\* behind it.
Collect_resets_counts ==
    /\ pc = "process"
    /\ \E overlap \in BOOLEAN :
          LET ps == process(binary_tree,
                            [word |-> FreshBuffer,
                             occurrences |->
                                 [i \in 0..(unique_words - 1) |-> FreshEntry],
                             occurrences_index |-> occurrences_index,
                             emitted |-> <<>>,
                             stray |-> stray,
                             overlap |-> overlap],
                            0, 0)
          IN /\ str' = ps.word
             /\ occurrences' = ps.occurrences
             /\ occurrences_index' = ps.occurrences_index
             /\ emitted' = ps.emitted
             /\ stray' = ps.stray
    /\ tree' = [m \in DOMAIN tree |-> [tree[m] EXCEPT !.count = 0]]
    /\ pc' = "qsort"
    /\ UNCHANGED <<build, go, file, consumed, eof, buffer, buffer_index, current, word,
                   word_index, unique_words, output>>

\* Lines 149-152: str and the array are allocated and process fills it.
\* The layout of struct Occurrences is the build's.
Collect ==
    /\ pc = "process"
    /\ \E overlap \in BOOLEAN :
          LET ps == process(binary_tree,
                            [word |-> FreshBuffer,
                             occurrences |->
                                 [i \in 0..(unique_words - 1) |-> FreshEntry],
                             occurrences_index |-> occurrences_index,
                             emitted |-> <<>>,
                             stray |-> stray,
                             overlap |-> overlap],
                            0, 0)
          IN /\ str' = ps.word
             /\ occurrences' = ps.occurrences
             /\ occurrences_index' = ps.occurrences_index
             /\ emitted' = ps.emitted
             /\ stray' = ps.stray
    /\ pc' = "qsort"
    /\ UNCHANGED <<build, go, file, consumed, eof, buffer, buffer_index, tree, current, word,
                   word_index, unique_words, output>>

\* ----------------------------------------------------------------- sorting
\* The comparator with its operands exchanged.
comparator_ascending(x, y) == x.count - y.count

\* Lines 40-42: an int difference.
comparator(x, y) == WrapInt(y.count - x.count)

\* A qsort that leaves the array as process filled it.
Sorted_as_collected(a) == {a}

\* The arrangements of array a that qsort may leave: the elements of a in an
\* order in which no element compares greater than a later one; any order
\* where the comparator admits none (differences that overflowed).
Sorted(a) ==
    LET n == Cardinality(DOMAIN a)
        perms == {p \in [0..(n - 1) -> 0..(n - 1)] :
                     \A i, j \in 0..(n - 1) : i # j => p[i] # p[j]}
        ordered == {q \in perms : \A i, j \in 0..(n - 1) :
                       i < j => comparator(a[q[i]], a[q[j]]) <= 0}
    IN {[i \in 0..(n - 1) |-> a[p[i]]] : p \in
           IF ordered = {} THEN perms ELSE ordered}

\* Lines 159-160.
Qsort ==
    /\ pc = "qsort"
    /\ occurrences' \in Sorted(occurrences)
    /\ pc' = "write"
    /\ UNCHANGED <<build, go, file, consumed, eof, buffer, buffer_index, tree, current, word,
                   word_index, unique_words, str, occurrences_index, emitted,
                   output, stray>>

\* ----------------------------------------------------------------- writing
\* What %ls prints for an entry: the characters before the first L'\0'; an
\* array without one is followed by the L'\0' that wcscpy put behind it.
TextOf(e) == [i \in 1..Wcslen(e.word) |-> e.word[i - 1]]

\* Lines 167-173.
Write ==
    /\ pc = "write"
    /\ output' = [i \in 1..unique_words |->
                     [word |-> TextOf(occurrences[i - 1]),
                      count |-> occurrences[i - 1].count]]
    /\ pc' = "done"
    /\ UNCHANGED <<build, go, file, consumed, eof, buffer, buffer_index, tree, current, word,
                   word_index, unique_words, str, occurrences,
                   occurrences_index, emitted, stray>>

\* Line 165: fopen(output_file_path, "w") has created or emptied the output
\* file.
OutputCreated == pc = "done"

Next ==
    \/ Read
    \/ Collect
    \/ Qsort
    \/ Write

Spec == Init /\ [][Next]_vars

ShortSpec == InitShort /\ [][Next]_vars

IntSpec == InitInt /\ [][Next]_vars

CodecSpec == InitCodec /\ [][Next]_vars

RangeSpec == InitRange /\ [][Next]_vars

\* main runs on its own: a statement that can be executed is executed.
LiveSpec == InitLive /\ [][Next]_vars /\ WF_vars(Next)

ChunkSpec == InitChunk /\ [][Next]_vars

NulSpec == InitNul /\ [][Next]_vars

NextOpen ==
    \/ Fopen
    \/ FgetwsNullStream
    \/ Next

OpenSpec == InitOpen /\ [][NextOpen]_vars

\* ----------------------------------------------- src/unnamed/part_001
\* The variant src/unnamed/part_001, which differs from part_000 in the
\* length cap test of its line 99.
CapReached001(index) == index > MAX_WORD_SIZE

\* part_001, lines 98-102: a character of interest behind the length cap.
Skip001 ==
    /\ pc = "scan"
    /\ character # 0
    /\ classify(character) >= 0
    /\ CapReached001(word_index)
    /\ buffer_index' = buffer_index + 1
    /\ UNCHANGED <<build, go, file, pc, consumed, eof, buffer, tree, current, word,
                   word_index, unique_words, str, occurrences,
                   occurrences_index, emitted, output, stray>>

\* part_001, lines 98, 103-117, 130: a character of interest is stored and
\* walked into the trie.
Letter001 ==
    /\ pc = "scan"
    /\ character # 0
    /\ classify(character) >= 0
    /\ ~CapReached001(word_index)
    /\ word' = StoreAt(word, word_index, character)
    /\ stray' = IF InBounds(word_index) THEN stray ELSE stray \cup {"word"}
    /\ word_index' = word_index + 1
    /\ LET r == InsertBits(tree, current, classify(character), TopBit)
       IN /\ tree' = r.tree
          /\ current' = r.current
    /\ buffer_index' = buffer_index + 1
    /\ UNCHANGED <<build, go, file, pc, consumed, eof, buffer, unique_words, str,
                   occurrences, occurrences_index, emitted, output>>

Next001 ==
    \/ \E chunk \in Chunks : FgetwsChunk(chunk)
    \/ FgetwsNull
    \/ ScanEnd
    \/ Skip001
    \/ Letter001
    \/ Boundary
    \/ Collect
    \/ Qsort
    \/ Write

Spec001 == InitShort /\ [][Next001]_vars

\* ------------------------------------------------------- src/c/text.c
\* The variant src/c/text.c.  Its dictionary is the heap tree (zero and one
\* are subtrees[0] and subtrees[1]), its i is word_index and its j
\* buffer_index; its read loop is the one of lines 56-61 and 99-101, which
\* FgetwsChunk, FgetwsNull and ScanEnd model.

\* text.c, lines 64 and 86: the test in front of a store into word.
TextRoom(index) == index < MAX_WORD_SIZE - 1

\* text.c, lines 63-84 and 99: a lowercase letter is stored and walked into
\* the dictionary while there is room.
TextLower ==
    /\ pc = "scan"
    /\ character # 0
    /\ LowerFirst <= character /\ character <= LowerLast
    /\ IF TextRoom(word_index)
          THEN /\ word' = StoreAt(word, word_index, character)
               /\ LET r == InsertBits(tree, current, character - LowerFirst,
                                      TopBit)
                  IN /\ tree' = r.tree
                     /\ current' = r.current
               /\ word_index' = word_index + 1
          ELSE UNCHANGED <<word, tree, current, word_index>>
    /\ buffer_index' = buffer_index + 1
    /\ UNCHANGED <<build, go, file, pc, consumed, eof, buffer, unique_words, str,
                   occurrences, occurrences_index, emitted, output, stray>>

\* text.c, lines 85-89 and 99: an uppercase letter is stored in its
\* lowercase form while there is room; the cursor stays.
TextUpper ==
    /\ pc = "scan"
    /\ character # 0
    /\ ~(LowerFirst <= character /\ character <= LowerLast)
    /\ UpperFirst <= character /\ character <= UpperLast
    /\ IF TextRoom(word_index)
          THEN /\ word' = StoreAt(word, word_index, character + CaseOffset)
               /\ word_index' = word_index + 1
          ELSE UNCHANGED <<word, word_index>>
    /\ buffer_index' = buffer_index + 1
    /\ UNCHANGED <<build, go, file, pc, consumed, eof, buffer, tree, current,
                   unique_words, str, occurrences, occurrences_index, emitted,
                   output, stray>>

\* text.c, lines 90-99: any other character counts the node at the cursor
\* when characters were stored, and starts over.
TextOther ==
    /\ pc = "scan"
    /\ character # 0
    /\ ~(LowerFirst <= character /\ character <= LowerLast)
    /\ ~(UpperFirst <= character /\ character <= UpperLast)
    /\ IF word_index > 0
          THEN /\ tree' = [tree EXCEPT ![current].count = WrapInt(@ + 1)]
               /\ word' = StoreAt(StoreAt(word, word_index, 0), 0, 0)
          ELSE /\ word' = StoreAt(word, 0, 0)
               /\ UNCHANGED tree
    /\ current' = binary_tree
    /\ word_index' = 0
    /\ buffer_index' = buffer_index + 1
    /\ UNCHANGED <<build, go, file, pc, consumed, eof, buffer, unique_words, str,
                   occurrences, occurrences_index, emitted, output, stray>>

\* text.c, lines 20-24: at a character boundary the character of the last
\* six bits is stored at index / 6, and the L'\0' behind it.
TextWriteChar(ps, index, summ) ==
    LET at == index \div BITS_PER_CHARACTER
    IN [ps EXCEPT !.word = StoreAt(StoreAt(@, at, decode(summ)), at + 1, 0)]

\* text.c, lines 18-37: print, the branch one in front of the branch zero.
\* ps carries the buffer and the lines printed.
RECURSIVE print(_, _, _, _)
print(node, ps, index, summ) ==
    LET boundary == index > 0 /\ index % BITS_PER_CHARACTER = 0
        ps1 == IF boundary THEN TextWriteChar(ps, index, summ) ELSE ps
        summ1 == IF boundary THEN 0 ELSE summ
    IN IF node = NULL
           THEN ps1
           ELSE LET ps2 == IF tree[node].count > 0
                               THEN [ps1 EXCEPT
                                        !.lines = Append(@,
                                            [word |-> [i \in 1..Wcslen(ps1.word)
                                                          |-> ps1.word[i - 1]],
                                             count |-> tree[node].count]),
                                        !.emitted = Append(@, node)]
                               ELSE ps1
                    ps3 == IF tree[node].subtrees[1] # NULL
                               THEN print(tree[node].subtrees[1], ps2,
                                          index + 1, summ1 * 2 + 1)
                               ELSE ps2
                IN IF tree[node].subtrees[0] # NULL
                       THEN print(tree[node].subtrees[0], ps3,
                                  index + 1, summ1 * 2)
                       ELSE ps3

\* text.c, lines 104-105: str is not initialised, and print never stores
\* str[0]: what it holds, L'\0' or another value, is the build's.
TextPrint ==
    /\ pc = "process"
    /\ \E first \in {0, Indeterminate} :
          LET ps == print(binary_tree,
                          [word |-> [FreshBuffer EXCEPT ![0] = first],
                           lines |-> <<>>,
                           emitted |-> <<>>],
                          0, 0)
          IN /\ str' = ps.word
             /\ output' = ps.lines
             /\ emitted' = ps.emitted
    /\ pc' = "done"
    /\ UNCHANGED <<build, go, file, consumed, eof, buffer, buffer_index, tree,
                   current, word, word_index, unique_words, occurrences,
                   occurrences_index, stray>>

TextNext ==
    \/ \E chunk \in Chunks : FgetwsChunk(chunk)
    \/ FgetwsNull
    \/ ScanEnd
    \/ TextLower
    \/ TextUpper
    \/ TextOther
    \/ TextPrint

TextSpec == InitShort /\ [][TextNext]_vars

\* ------------------------------------------------------- src/go/text.go
\* The variables of the C programs, which the Go program leaves alone.
cvars ==
    <<build, file, eof, buffer, buffer_index, tree, current, word,
      word_index, unique_words, str, occurrences, occurrences_index,
      emitted, output, stray>>

\* The first run of the Go program on the files of InitShort, the file
\* open and nothing read (lines 22-30).
GoInit ==
    /\ file = [chars |-> Chars, size |-> MaxShortInput]
    /\ build = [int_bits |-> INT_BITS]
    /\ pc = "go_read"
    /\ Fresh

\* Line 46, words[word] += 1: a missing key reads as zero.
GoIncrement(m, w) ==
    IF w \in DOMAIN m THEN [m EXCEPT ![w] = @ + 1] ELSE (w :> 1) @@ m

\* Lines 40-49: what one character c does to word and words.
GoRune(g, c) ==
    IF LowerFirst <= c /\ c <= LowerLast
    THEN [g EXCEPT !.word = Append(@, c)]
    ELSE IF UpperFirst <= c /\ c <= UpperLast
         THEN [g EXCEPT !.word = Append(@, c + CaseOffset)]
         ELSE [g EXCEPT !.words = IF Len(g.word) > 0
                                  THEN GoIncrement(@, g.word) ELSE @,
                        !.word = <<>>]

\* Lines 33 and 39-50, one ReadRune that returns a character.  The first
\* run finds the file's next character, the second run reads the same file.
GoReadRune ==
    /\ pc = "go_read"
    /\ \E c \in file.chars :
          /\ \/ /\ go.run = 1
                /\ Len(consumed) < file.size
                /\ consumed' = Append(consumed, c)
             \/ /\ go.run = 2
                /\ go.pos < Len(consumed)
                /\ c = consumed[go.pos + 1]
                /\ UNCHANGED consumed
          /\ go' = [GoRune(go, c) EXCEPT !.pos = @ + 1]
    /\ UNCHANGED <<pc, cvars>>

\* Lines 33-35, ReadRune at the end of the file: the loop is left, and the
\* word in progress is not counted.
GoEOF ==
    /\ pc = "go_read"
    /\ go.pos = Len(consumed)
    /\ pc' = "go_range"
    /\ UNCHANGED <<go, consumed, cvars>>

\* The arrangements of the set S in a slice.
Arrangements(S) ==
    {ks \in [1..Cardinality(S) -> S] :
        \A i, j \in 1..Cardinality(S) : i # j => ks[i] # ks[j]}

\* Lines 52-56, for key := range words: the language leaves the iteration
\* order of a map unspecified, and it may differ from one range to the next.
GoRange ==
    /\ pc = "go_range"
    /\ \E ks \in Arrangements(DOMAIN go.words) :
          go' = [go EXCEPT !.keys = ks]
    /\ pc' = "go_sort"
    /\ UNCHANGED <<consumed, cvars>>

\* The place of key k in the slice ks.
GoIndex(ks, k) == CHOOSE i \in 1..Len(ks) : ks[i] = k

\* Lines 58-60, sort.SliceStable with less(i, j) = words[keys[i]] >
\* words[keys[j]]: descending counts, equal counts in the order they had.
SliceStable(ks, m) ==
    CHOOSE s \in Arrangements({ks[i] : i \in 1..Len(ks)}) :
        \A i, j \in 1..Len(ks) :
            i < j => \/ m[s[i]] > m[s[j]]
                     \/ /\ m[s[i]] = m[s[j]]
                        /\ GoIndex(ks, s[i]) < GoIndex(ks, s[j])

GoSliceStable ==
    /\ pc = "go_sort"
    /\ go' = [go EXCEPT !.keys = SliceStable(go.keys, go.words)]
    /\ pc' = "go_write"
    /\ UNCHANGED <<consumed, cvars>>

\* Lines 62-76: the lines of the output file, one per key.
GoWrite ==
    /\ pc = "go_write"
    /\ go' = [go EXCEPT !.lines = Append(@,
                 [i \in 1..Len(go.keys) |->
                     [word |-> go.keys[i],
                      count |-> go.words[go.keys[i]]]])]
    /\ pc' = "go_exit"
    /\ UNCHANGED <<consumed, cvars>>

\* The program is started once more on the same file.
GoAgain ==
    /\ pc = "go_exit"
    /\ go.run = 1
    /\ go' = [GoFresh EXCEPT !.run = 2, !.lines = go.lines]
    /\ pc' = "go_read"
    /\ UNCHANGED <<consumed, cvars>>

\* The Go program is started on the file the C program has read and
\* written the list of (a run of the kind that reads a file known before).
GoStart ==
    /\ pc = "done"
    /\ go' = [GoFresh EXCEPT !.run = 2]
    /\ pc' = "go_read"
    /\ UNCHANGED <<consumed, cvars>>

GoNext ==
    \/ GoReadRune
    \/ GoEOF
    \/ GoRange
    \/ GoSliceStable
    \/ GoWrite
    \/ GoAgain

GoSpec == GoInit /\ [][GoNext]_vars

\* Both programs on one file: src/unnamed/part_000, then src/go/text.go.
BothNext ==
    \/ Next
    \/ GoStart
    \/ GoReadRune
    \/ GoEOF
    \/ GoRange
    \/ GoSliceStable
    \/ GoWrite

BothSpec == InitShort /\ [][BothNext]_vars

\* ------------------------------------------------------ words of the input
\* A character of one of the two accepted ranges.
IsLetter(c) ==
    \/ LowerFirst <= c /\ c <= LowerLast
    \/ UpperFirst <= c /\ c <= UpperLast

\* The lowercase form of a letter.
canonical_case(c) ==
    IF UpperFirst <= c /\ c <= UpperLast THEN c + CaseOffset ELSE c

Min(a, b) == IF a <= b THEN a ELSE b

\* The positions of s at which a maximal run of letters starts, the position
\* of its last letter, and the run.
RunStarts(s) ==
    {i \in 1..Len(s) : IsLetter(s[i]) /\ (i = 1 \/ ~IsLetter(s[i - 1]))}

RunEnd(s, i) ==
    CHOOSE j \in i..Len(s) :
        /\ \A m \in i..j : IsLetter(s[m])
        /\ j = Len(s) \/ ~IsLetter(s[j + 1])

RunAt(s, i) == SubSeq(s, i, RunEnd(s, i))

\* The runs that a character outside the alphabet follows.
EndedRunStarts(s) == {i \in RunStarts(s) : RunEnd(s, i) < Len(s)}

\* A run, case-folded and truncated to MAX_WORD_SIZE characters.
FoldTrunc(r) ==
    [i \in 1..Min(Len(r), MAX_WORD_SIZE) |-> canonical_case(r[i])]

\* How many runs of s are the word w.
Occurs(s, w) ==
    Cardinality({i \in RunStarts(s) : FoldTrunc(RunAt(s, i)) = w})

\* The frequency list of s: its words with their numbers of runs.
FrequencyList(s) ==
    {<<FoldTrunc(RunAt(s, i)), Occurs(s, FoldTrunc(RunAt(s, i)))>> :
        i \in RunStarts(s)}

\* The characters the scan loop has processed, and the letters at their end.
Scanned == SubSeq(consumed, 1, Len(consumed) - Len(buffer) + buffer_index)

RunInProgress ==
    LET s == Scanned
    IN IF s # <<>> /\ IsLetter(s[Len(s)])
           THEN LET i == CHOOSE i \in RunStarts(s) : RunEnd(s, i) = Len(s)
                IN RunAt(s, i)
           ELSE <<>>

\* ------------------------------------------------------- paths of the trie
ParentOf(n) ==
    CHOOSE q \in 1..Len(tree) : \E b \in 0..1 : tree[q].subtrees[b] = n

EdgeOf(n) == CHOOSE b \in 0..1 : tree[ParentOf(n)].subtrees[b] = n

\* The bits on the way from the root to node n.
RECURSIVE PathOf(_)
PathOf(n) ==
    IF n = binary_tree THEN <<>> ELSE Append(PathOf(ParentOf(n)), EdgeOf(n))

\* The number a sequence of bits spells, most significant bit first.
RECURSIVE ValueOf(_)
ValueOf(bits) ==
    IF bits = <<>> THEN 0
    ELSE 2 * ValueOf(SubSeq(bits, 1, Len(bits) - 1)) + bits[Len(bits)]

\* The codes a path of n * BITS_PER_CHARACTER bits spells.
CodesOf(path) ==
    [j \in 1..(Len(path) \div BITS_PER_CHARACTER) |->
        ValueOf(SubSeq(path, (j - 1) * BITS_PER_CHARACTER + 1,
                       j * BITS_PER_CHARACTER))]

\* The lowercase word a path spells.
PathWord(n) ==
    LET codes == CodesOf(PathOf(n))
    IN [j \in 1..Len(codes) |-> LowerFirst + codes[j]]

\* The longest way down from node n, in edges.
RECURSIVE Height(_)
Height(n) ==
    LET kids == {tree[n].subtrees[b] : b \in 0..1} \ {NULL}
        below == {Height(c) : c \in kids}
    IN IF kids = {} THEN 0
       ELSE 1 + CHOOSE h \in below : \A g \in below : g <= h

Counted == {n \in 1..Len(tree) : tree[n].count > 0}

OutputPairs == {<<output[i].word, output[i].count>> : i \in 1..Len(output)}

\* ================================================================== claims
\* C1: for every input, the list written holds the entry (w, n) exactly when
\* n >= 1 is the number of maximal runs of letters of the input, ended by a
\* character outside the alphabet or by the end of the stream, whose
\* case-folded text truncated to MAX_WORD_SIZE characters is w.
C1_CountingCorrect ==
    pc = "done" => OutputPairs = FrequencyList(consumed)

\* C2: when the input ends while a word is in progress, the counter of the
\* node at the cursor is incremented before collection starts, so that the
\* counter holds the number of runs of the input that are this word, the
\* trailing one included.
C2_TrailingWordCounted ==
    (pc = "process" /\ word_index > 0)
        => tree[current].count = Occurs(consumed, FoldTrunc(RunInProgress))

\* C3: the lines written after qsort are non-increasing in count.
C3_SortOrder ==
    pc = "done"
        => \A i \in 1..(Len(output) - 1) : output[i].count >= output[i + 1].count

\* C3 witness: two lines were written and qsort had to swap them.
C3_Witness ==
    /\ pc = "done"
    /\ Len(output) = 2
    /\ output[1].count > output[2].count
    /\ tree[emitted[1]].count < tree[emitted[2]].count

\* C4: the text process copies into the entry of a counted node at bit depth
\* n * BITS_PER_CHARACTER is the n-character lowercase word that the path
\* from the root to the node spells, which is the case-folded, truncated
\* text of a run that ended at this node; what deeper and sibling branches
\* wrote into the shared buffer does not show in it.
C4_PathSpellsText ==
    pc = "qsort"
        => \A i \in 1..Len(emitted) :
              LET n == emitted[i]
                  text == TextOf(occurrences[i - 1])
              IN /\ tree[n].count > 0
                 /\ Len(PathOf(n)) = BITS_PER_CHARACTER * Len(text)
                 /\ text = PathWord(n)
                 /\ \E r \in EndedRunStarts(consumed) :
                       FoldTrunc(RunAt(consumed, r)) = text

\* C4 witness: a word, a longer word below it, and a word of a sibling
\* branch emitted after the traversal came back from the deeper one.
C4_Witness ==
    /\ pc = "qsort"
    /\ Len(emitted) = 3
    /\ Len(TextOf(occurrences[0])) = 1
    /\ Len(TextOf(occurrences[1])) = 2
    /\ Len(TextOf(occurrences[2])) = 1
    /\ TextOf(occurrences[1])[1] = TextOf(occurrences[0])[1]
    /\ TextOf(occurrences[1])[2] # TextOf(occurrences[0])[1]

\* C5: every entry collected by process and every line written has a count
\* of at least 1, also for inputs with runs of MAX_WORD_SIZE or more letters.
C5_NoZeroCount ==
    /\ pc \in {"qsort", "write", "done"}
          => \A i \in DOMAIN occurrences : occurrences[i].count >= 1
    /\ pc = "done" => \A i \in 1..Len(output) : output[i].count >= 1

\* C6: no node is deeper than MAX_WORD_SIZE * BITS_PER_CHARACTER bits, the
\* cursor included, and no word written has more than MAX_WORD_SIZE
\* characters.
C6_LengthCap ==
    /\ Height(binary_tree) <= MAX_WORD_SIZE * BITS_PER_CHARACTER
    /\ Len(PathOf(current)) <= MAX_WORD_SIZE * BITS_PER_CHARACTER
    /\ \A i \in 1..Len(output) : Len(output[i].word) <= MAX_WORD_SIZE

\* C6 witness: a run longer than MAX_WORD_SIZE was read and its prefix
\* written.
C6_Witness ==
    /\ pc = "done"
    /\ \E r \in EndedRunStarts(consumed) :
          /\ Len(RunAt(consumed, r)) > MAX_WORD_SIZE
          /\ \E i \in 1..Len(output) :
                /\ output[i].word = FoldTrunc(RunAt(consumed, r))
                /\ Len(output[i].word) = MAX_WORD_SIZE

\* The state part of C7: where the cursor of a run is, and the lines written.
C7_AtPrefix ==
    /\ pc \in {"scan", "fgetws"}
          => /\ word_index = Min(Len(RunInProgress), MAX_WORD_SIZE)
             /\ Len(PathOf(current)) = BITS_PER_CHARACTER * word_index
             /\ PathWord(current) = FoldTrunc(RunInProgress)
    /\ pc = "done"
          => \A i, j \in 1..Len(output) :
                output[i].word = output[j].word => i = j

\* The step part of C7: what a letter behind the cap and what the character
\* ending a run change.
C7_Step ==
    /\ (pc = "scan" /\ IsLetter(character)
            /\ Len(RunInProgress) >= MAX_WORD_SIZE)
          => /\ tree' = tree
             /\ current' = current
             /\ word_index' = word_index
             /\ unique_words' = unique_words
    /\ (pc = "scan" /\ character # 0 /\ ~IsLetter(character)
            /\ RunInProgress # <<>>)
          => tree' = [tree EXCEPT ![current].count = @ + 1]

\* C7: a letter behind the MAX_WORD_SIZE-th letter of a run changes neither
\* the cursor nor the word index nor the trie and starts no new word, so the
\* cursor of a run stays at the node of its folded first MAX_WORD_SIZE
\* letters; the character that ends the run increments that node, and runs
\* with the same first MAX_WORD_SIZE letters and different tails come to one
\* line of the output.
C7_OverlongCollapse == [](C7_AtPrefix) /\ [][C7_Step]_vars

\* C7 witness: two ended runs with the same folded first MAX_WORD_SIZE
\* letters, one of them longer than MAX_WORD_SIZE, the texts behind the
\* prefix different, were written as one line.
C7_Witness ==
    /\ pc = "done"
    /\ \E a, b \in EndedRunStarts(consumed) :
          /\ a # b
          /\ FoldTrunc(RunAt(consumed, a)) = FoldTrunc(RunAt(consumed, b))
          /\ Len(RunAt(consumed, a)) > MAX_WORD_SIZE
          /\ Len(RunAt(consumed, a)) # Len(RunAt(consumed, b))
          /\ Cardinality({i \in 1..Len(output) :
                 output[i].word = FoldTrunc(RunAt(consumed, a))}) = 1

\* C8: after process has returned, the collected list holds one entry for
\* each node with a positive counter and no other, and no two entries carry
\* the same text.
C8_UniqueEntries ==
    pc \in {"qsort", "write", "done"}
        => /\ occurrences_index = Cardinality(Counted)
           /\ Len(emitted) = occurrences_index
           /\ {emitted[i] : i \in 1..Len(emitted)} = Counted
           /\ DOMAIN occurrences = 0..(occurrences_index - 1)
           /\ \A i, j \in DOMAIN occurrences :
                 TextOf(occurrences[i]) = TextOf(occurrences[j]) => i = j

\* C8 witness: process returned with two entries, one of them for a word
\* that occurred twice.
C8_Witness ==
    /\ pc = "qsort"
    /\ occurrences_index = 2
    /\ \E n \in Counted : tree[n].count = 2

\* The number of the letter whose two forms the file of a codec run holds.
FileLetter == CHOOSE k \in 0..(Letters - 1) : file.chars = CodecChars(k)

\* C9: the uppercase form U+0531+k and the lowercase form U+0561+k of a
\* letter get the same code k, so the path of a run is the same whichever
\* case each of its letters has: BITS_PER_CHARACTER bits spelling k for
\* every letter.
C9_CaseFolding ==
    pc \in {"scan", "fgetws"}
        => CodesOf(PathOf(current)) =
               [i \in 1..Min(Len(RunInProgress), MAX_WORD_SIZE) |-> FileLetter]

\* C9 witness: the last uppercase letter and its lowercase form were walked
\* into the trie as one run.
C9_Witness ==
    /\ pc = "scan"
    /\ RunInProgress = <<UpperLast, UpperLast + CaseOffset>>
    /\ Len(PathOf(current)) = 2 * BITS_PER_CHARACTER

\* C10: the character process writes for the code of a letter is the
\* lowercase form of the letter: the words written are the runs of the input
\* that a character outside the alphabet ended, letter by letter in
\* lowercase.
C10_RoundTrip ==
    pc = "done"
        => {output[i].word : i \in 1..Len(output)} =
               {FoldTrunc(RunAt(consumed, r)) : r \in EndedRunStarts(consumed)}

\* C10 witness: the last uppercase letter was read as a word and its
\* lowercase form written.
C10_Witness ==
    /\ pc = "done"
    /\ consumed = <<UpperLast, Newline>>
    /\ output = <<[word |-> <<UpperLast + CaseOffset>>, count |-> 1]>>

\* The bits the bit loop takes from a code, most significant first.
BitsOf(code) ==
    [i \in 1..BITS_PER_CHARACTER |-> BitOf(code, 2 ^ (BITS_PER_CHARACTER - i))]

\* C11: every character of the two blocks gets a code in 0 .. 2^B - 1, B =
\* BITS_PER_CHARACTER, which the B bits walked into the trie spell in full,
\* and every other character gets -1: the path of the cursor is, B bits per
\* letter, the codes of the letters of the run in progress.
C11_ClassifyInRange ==
    /\ \A c \in file.chars :
          IF IsLetter(c)
              THEN /\ classify(c) \in 0..(2 ^ BITS_PER_CHARACTER - 1)
                   /\ ValueOf(BitsOf(classify(c))) = classify(c)
              ELSE classify(c) = -1
    /\ pc \in {"scan", "fgetws"}
          => LET path == PathOf(current)
                 run == RunInProgress
             IN /\ word_index = Min(Len(run), MAX_WORD_SIZE)
                /\ Len(path) = BITS_PER_CHARACTER * word_index
                /\ \A i \in 1..word_index :
                      /\ classify(run[i]) >= 0
                      /\ SubSeq(path, (i - 1) * BITS_PER_CHARACTER + 1,
                                i * BITS_PER_CHARACTER)
                             = BitsOf(classify(run[i]))

\* C11 witness: the last lowercase letter, code 38, was walked into the trie
\* behind a line end.
C11_Witness ==
    /\ pc = "scan"
    /\ Scanned = <<Newline, LowerLast>>
    /\ PathOf(current) = <<1, 0, 0, 1, 1, 0>>

\* What C12 says of one step of the scan loop over a character outside the
\* two blocks.
C12_Step ==
    (pc = "scan" /\ buffer_index < Len(buffer)
         /\ ~IsLetter(buffer[buffer_index + 1]))
        => /\ current' = binary_tree
           /\ word_index' = 0
           /\ tree' = IF word_index > 0
                          THEN [tree EXCEPT ![current].count = @ + 1]
                          ELSE tree

\* C12: every character of the input outside the two blocks, the line end
\* and U+0000 included, is a word boundary: the node of a word in progress
\* is incremented by 1, and the cursor is back at the root and the word
\* index at 0 before the next character is processed.
C12_EveryOtherCharIsBoundary == [][C12_Step]_vars

\* C13: as long as the input read holds no letter (an empty file, or a file
\* of characters outside the two blocks), the trie is the root alone with
\* counter 0, unique_words is 0, and process collects and the write loop
\* writes no entry.
C13_NoLetters ==
    (\A i \in 1..Len(consumed) : ~IsLetter(consumed[i]))
        => /\ tree = <<NewNode>>
           /\ unique_words = 0
           /\ occurrences_index = 0
           /\ DOMAIN occurrences = {}
           /\ emitted = <<>>
           /\ output = <<>>

\* C13 witness: a file of two line ends was read to its end and the write
\* loop has run.
C13_Witness ==
    /\ pc = "done"
    /\ consumed = <<Newline, Newline>>
    /\ tree = <<NewNode>>
    /\ output = <<>>

\* The place in the order of collection of the entry with text w.
CollectedAt(w) == CHOOSE k \in 1..Len(emitted) : PathWord(emitted[k]) = w

\* C14 as stated: two lines with equal counts are written in the order in
\* which process collected their entries (the sort is stable).
C14_StableSort ==
    pc = "done"
        => \A i, j \in 1..Len(output) :
              (i < j /\ output[i].count = output[j].count)
                  => CollectedAt(output[i].word) < CollectedAt(output[j].word)

\* The lines written are the entries of the array, in its order.
C14_Written ==
    pc = "done"
        => /\ Len(output) = Cardinality(DOMAIN occurrences)
           /\ \A i \in 1..Len(output) :
                 /\ output[i].word = TextOf(occurrences[i - 1])
                 /\ output[i].count = occurrences[i - 1].count

\* What qsort does to the array: the entries are kept, each once, and no
\* entry is followed by one with a greater count.
C14_QsortStep ==
    pc = "qsort"
        => /\ DOMAIN occurrences' = DOMAIN occurrences
           /\ \E p \in [DOMAIN occurrences -> DOMAIN occurrences] :
                 /\ \A i, j \in DOMAIN occurrences : i # j => p[i] # p[j]
                 /\ \A i \in DOMAIN occurrences :
                       occurrences'[i] = occurrences[p[i]]
           /\ \A i, j \in DOMAIN occurrences :
                 i < j => occurrences'[i].count >= occurrences'[j].count

\* C14, amended: the lines written are the entries process collected, each
\* once, in an order that is non-increasing in count; the order of two
\* entries with equal counts is any order qsort leaves, the order of
\* collection or not.
C14_SortRearranges == [](C14_Written) /\ [][C14_QsortStep]_vars

\* C14 witness: two words that occurred once each were written in the order
\* opposite to the order of collection.
C14_Witness ==
    /\ pc = "done"
    /\ Len(output) = 2
    /\ output[1].count = 1
    /\ output[2].count = 1
    /\ tree[emitted[1]].count = 1
    /\ tree[emitted[2]].count = 1
    /\ CollectedAt(output[1].word) = 2
    /\ CollectedAt(output[2].word) = 1

\* C16: when the input file cannot be opened, the run ends in a reported
\* fatal error before a character is processed or a node modified, and the
\* output file is neither created nor modified: behind the failed fopen the
\* program is on its way to the report or has made it.
C16_MissingInputIsFatal ==
    (~file.found /\ pc # "fopen")
        => /\ pc \in {"null_stream", "fatal"}
           /\ consumed = <<>>
           /\ tree = <<NewNode>>
           /\ ~OutputCreated

\* The child pointers of the heap that are set: (node, edge) pairs.
Edges ==
    {e \in (1..Len(tree)) \X (0..1) : tree[e[1]].subtrees[e[2]] # NULL}

\* The nodes below node n, as far as fuel edges down.
RECURSIVE Below(_, _)
Below(n, fuel) ==
    IF fuel = 0 THEN {}
    ELSE LET kids == {tree[n].subtrees[b] : b \in 0..1} \ {NULL}
         IN kids \cup UNION {Below(c, fuel - 1) : c \in kids}

\* C17: the trie is a tree.  Every pointer leads to an allocated node, every
\* node but the root is the target of exactly one pointer (one parent, one
\* edge) and the root of none, no node is below itself, and every allocated
\* node is below the root.
C17_TrieIsTree ==
    /\ \A e \in Edges : tree[e[1]].subtrees[e[2]] \in 2..Len(tree)
    /\ \A n \in 2..Len(tree) :
          Cardinality({e \in Edges : tree[e[1]].subtrees[e[2]] = n}) = 1
    /\ \A n \in 1..Len(tree) : n \notin Below(n, Len(tree))
    /\ {binary_tree} \cup Below(binary_tree, Len(tree)) = 1..Len(tree)
    /\ current \in 1..Len(tree)

\* C17 witness: two words were counted whose paths part at a node with two
\* children.
C17_Witness ==
    /\ Cardinality(Counted) = 2
    /\ \E n \in 1..Len(tree) :
          tree[n].subtrees[0] # NULL /\ tree[n].subtrees[1] # NULL

\* The sum of the counters of the first n nodes of heap t.
RECURSIVE CountsUpTo(_, _)
CountsUpTo(t, n) == IF n = 0 THEN 0 ELSE t[n].count + CountsUpTo(t, n - 1)

SumCounts(t) == CountsUpTo(t, Len(t))

\* The tokenizer is in a word (word_index > 0) exactly while the characters
\* scanned end in a letter.
C18_InWord ==
    pc \in {"scan", "fgetws"} => (word_index > 0 <=> RunInProgress # <<>>)

\* One step of the tokenizer: it increments at most one counter, by 1; it
\* does so exactly when it processes a character outside the blocks with a
\* word in progress, and is outside a word behind it; only a letter takes
\* it into a word.
C18_Step ==
    LET inc == SumCounts(tree') - SumCounts(tree)
        ends == /\ pc = "scan"
                /\ character # 0
                /\ ~IsLetter(character)
                /\ word_index > 0
    IN /\ inc \in {0, 1}
       /\ inc = 1 <=> ends
       /\ ends => /\ tree' = [tree EXCEPT ![current].count = @ + 1]
                   /\ word_index' = 0
                   /\ current' = binary_tree
       /\ word_index' > word_index => (pc = "scan" /\ IsLetter(character))

\* C18: the tokenizer alternates between being outside a word and in one.
\* A counter is incremented only when a character outside the blocks is
\* processed while a word is in progress, once, and the tokenizer is outside
\* a word behind it, so that further such characters increment nothing and
\* two increments have a letter between them; a run of one letter is
\* counted.
C18_Alternation == [](C18_InWord) /\ [][C18_Step]_vars

\* C18 witness: a run of one letter was counted at the first line end, and
\* the second line end behind it counted nothing.
C18_Witness ==
    /\ pc = "scan"
    /\ Scanned = <<LowerFirst, Newline, Newline>>
    /\ SumCounts(tree) = 1
    /\ word_index = 0

\* The bits that spell the lowercase word w, BITS_PER_CHARACTER per letter.
WordBits(w) ==
    [j \in 1..(BITS_PER_CHARACTER * Len(w)) |->
        BitsOf(w[(j - 1) \div BITS_PER_CHARACTER + 1] - LowerFirst)
              [((j - 1) % BITS_PER_CHARACTER) + 1]]

\* The node at the end of the path bits[i..] from node n of heap t, NULL if
\* the heap has no such path.
RECURSIVE DescendIn(_, _, _, _)
DescendIn(t, n, bits, i) ==
    IF n = NULL \/ i > Len(bits) THEN n
    ELSE DescendIn(t, t[n].subtrees[bits[i]], bits, i + 1)

Descend(n, bits, i) == DescendIn(tree, n, bits, i)

NodeOfWord(w) == Descend(binary_tree, WordBits(w), 1)

\* C19: at every point of the read loop the counters are those of the
\* characters scanned so far: the node whose path spells the case-folded,
\* truncated text of a run that a character outside the blocks has ended
\* holds the number of such runs with this text, every other node holds 0,
\* and the counters sum to the number of such runs.
C19_PartialCounts ==
    LET s == Scanned
        ended == EndedRunStarts(s)
        text == [r \in ended |-> FoldTrunc(RunAt(s, r))]
        node == [r \in ended |-> NodeOfWord(text[r])]
    IN /\ \A r \in ended :
             /\ node[r] # NULL
             /\ tree[node[r]].count =
                    Cardinality({q \in ended : text[q] = text[r]})
       /\ \A n \in 1..Len(tree) :
             tree[n].count > 0 => \E r \in ended : node[r] = n
       /\ SumCounts(tree) = Cardinality(ended)

\* C19 witness: in the middle of the input, a word counted twice and a third
\* run in progress.
C19_Witness ==
    /\ pc = "scan"
    /\ Len(Scanned) = MaxShortInput
    /\ word_index = 1
    /\ \E n \in 1..Len(tree) : tree[n].count = 2

\* One pass of the bit loop, at any node n of the trie and for either bit:
\* an existing child is returned and the trie is as it was; a missing one
\* is one new node, counter 0 and no children, under that edge of n, and
\* nothing else of n or of another node changes.
C20_OneBit ==
    \A n \in 1..Len(tree), bit \in 0..1 :
        LET r == InsertBits(tree, n, bit, 1)
            new == Len(tree) + 1
        IN IF tree[n].subtrees[bit] # NULL
               THEN /\ r.tree = tree
                    /\ r.current = tree[n].subtrees[bit]
               ELSE /\ Len(r.tree) = new
                    /\ r.tree[new] = NewNode
                    /\ r.current = new
                    /\ r.tree[n] = [tree[n] EXCEPT !.subtrees[bit] = new]
                    /\ \A m \in 1..Len(tree) : m # n => r.tree[m] = tree[m]

\* The steps that insert a word.  A letter in front of the cap changes no
\* counter and no pointer that was set, allocates at most
\* BITS_PER_CHARACTER nodes, all of them with counter 0, takes the cursor
\* down the bits of its code, and leaves the trie as it was when that path
\* was there; the character that ends the word allocates nothing and adds
\* 1 to the counter at the cursor and to no other.
C20_Step ==
    /\ (pc = "scan" /\ IsLetter(character) /\ word_index < MAX_WORD_SIZE)
          => LET bits == BitsOf(canonical_case(character) - LowerFirst)
             IN /\ \A m \in 1..Len(tree) :
                      /\ tree'[m].count = tree[m].count
                      /\ \A b \in 0..1 :
                            tree[m].subtrees[b] # NULL
                                => tree'[m].subtrees[b] = tree[m].subtrees[b]
                /\ Len(tree') <= Len(tree) + BITS_PER_CHARACTER
                /\ \A m \in (Len(tree) + 1)..Len(tree') : tree'[m].count = 0
                /\ current' = DescendIn(tree', current, bits, 1)
                /\ current' # NULL
                /\ Descend(current, bits, 1) # NULL => tree' = tree
    /\ (pc = "scan" /\ character # 0 /\ ~IsLetter(character)
            /\ word_index > 0)
          => tree' = [tree EXCEPT ![current].count = @ + 1]

\* C20: advancing the cursor by one bit returns the child along that edge
\* if there is one and otherwise creates exactly one node, counter 0 and no
\* children, changing no other node's children or counter; so a word whose
\* path is there is inserted without a new node, and changes one counter,
\* by 1, at its end.
C20_CreateIfMissing == [](C20_OneBit) /\ [][C20_Step]_vars

\* C20 witness: a word of one letter was inserted and counted twice: the
\* second insertion found its BITS_PER_CHARACTER nodes.
C20_Witness ==
    /\ pc = "scan"
    /\ Scanned = <<LowerFirst, Newline, UpperFirst, Newline>>
    /\ Len(tree) = 1 + BITS_PER_CHARACTER
    /\ tree[NodeOfWord(<<LowerFirst>>)].count = 2

\* A depth at which a word ends: a positive multiple of BITS_PER_CHARACTER.
WordDepth(d) == d > 0 /\ d % BITS_PER_CHARACTER = 0

\* C21: a node has a positive counter only at a depth that is a positive
\* multiple of BITS_PER_CHARACTER, and the root never has one; so the test
\* count > 0 of process emits exactly the nodes of such a depth with a
\* positive counter.
C21_CountedAtWordDepth ==
    /\ tree[binary_tree].count = 0
    /\ \A n \in Counted : WordDepth(Len(PathOf(n)))
    /\ pc \in {"qsort", "write", "done"}
          => {emitted[i] : i \in 1..Len(emitted)} =
                 {n \in 1..Len(tree) :
                     tree[n].count > 0 /\ WordDepth(Len(PathOf(n)))}

\* C21 witness: process emitted a node at depth BITS_PER_CHARACTER and one
\* at twice that depth.
C21_Witness ==
    /\ pc = "qsort"
    /\ Len(emitted) = 2
    /\ Len(PathOf(emitted[1])) = BITS_PER_CHARACTER
    /\ Len(PathOf(emitted[2])) = 2 * BITS_PER_CHARACTER

\* Collection starts behind the read loop: fgetws has returned NULL and
\* every character it delivered has been scanned.
C22_BuildFinished ==
    pc \in {"process", "qsort", "write", "done"}
        => /\ eof
           /\ Scanned = consumed

\* One step: every node stays, with every pointer of it that was set and
\* with a counter that is not less; the trie changes in the scan loop
\* only.
C22_Step ==
    /\ Len(tree') >= Len(tree)
    /\ \A m \in 1..Len(tree) :
          /\ tree'[m].count >= tree[m].count
          /\ \A b \in 0..1 :
                tree[m].subtrees[b] # NULL
                    => tree'[m].subtrees[b] = tree[m].subtrees[b]
    /\ tree' # tree => (pc = "scan" /\ pc' = "scan")

\* C22: the trie only grows.  Across every step of the build phase no node
\* is removed, no pointer that was set is changed and no counter
\* decreases; process runs behind the read loop and changes no node.
C22_TrieOnlyGrows == [](C22_BuildFinished) /\ [][C22_Step]_vars

\* C22 witness: a trie of two words has been collected and written, and
\* holds their nodes and counters.
C22_Witness ==
    /\ pc = "done"
    /\ Len(tree) > 1 + BITS_PER_CHARACTER
    /\ Len(emitted) = 2
    /\ Cardinality(Counted) = 2

\* The words fed to the trie by the characters s: the folded, truncated
\* texts of its runs, the run at its end included.
WordsFed(s) == {FoldTrunc(RunAt(s, i)) : i \in RunStarts(s)}

\* The sum of the lengths of the words of the set W.
RECURSIVE SumOfLengths(_)
SumOfLengths(W) ==
    IF W = {} THEN 0
    ELSE LET w == CHOOSE x \in W : TRUE
         IN Len(w) + SumOfLengths(W \ {w})

\* C23: the trie has at most BITS_PER_CHARACTER nodes besides the root for
\* every character of the distinct words fed to it so far, the word in
\* progress included.
C23_NodeBound ==
    Len(tree) - 1 <= BITS_PER_CHARACTER * SumOfLengths(WordsFed(Scanned))

\* C23 witness: two words that share five bits and a second run of the
\* first: seven nodes besides the root, where the bound is twelve.
C23_Witness ==
    /\ Cardinality(WordsFed(Scanned)) = 2
    /\ Cardinality(RunStarts(Scanned)) = 3
    /\ Len(tree) - 1 = BITS_PER_CHARACTER + 1

\* The nodes of the words that occurred: the ends of the paths of the runs
\* that a character outside the blocks has ended.
NodesOfWords ==
    {NodeOfWord(FoldTrunc(RunAt(Scanned, r))) : r \in EndedRunStarts(Scanned)}

\* C24: with the counter an int of the build, incremented once for every
\* occurrence, no counter is negative in any reachable state; the node of
\* a word that occurred has a positive counter, and process emits it.
C24_CounterNonNegative ==
    /\ \A n \in 1..Len(tree) : tree[n].count >= 0
    /\ \A n \in NodesOfWords : n # NULL /\ tree[n].count > 0
    /\ pc \in {"qsort", "write", "done"}
          => NodesOfWords \subseteq {emitted[i] : i \in 1..Len(emitted)}

\* The characters classify accepts, around the two blocks, and those of
\* them below and from the first lowercase letter on.
Accepted ==
    {c \in (UpperFirst - RangeMargin)..(LowerLast + RangeMargin) :
        classify(c) >= 0}

AcceptedUpper == {c \in Accepted : c < LowerFirst}

AcceptedLower == {c \in Accepted : c >= LowerFirst}

\* The characters of the set S that get code k.
WithCode(S, k) == {c \in S : classify(c) = k}

\* C25 as stated: the two ranges have the same size, and the code of every
\* lowercase character (here the letter of the file) is the code of
\* exactly one uppercase character, and the other way round.
C25_SameSize ==
    /\ Cardinality(AcceptedUpper) = Cardinality(AcceptedLower)
    /\ Cardinality(WithCode(AcceptedLower, FileLetter)) = 1
    /\ Cardinality(WithCode(AcceptedUpper, FileLetter)) = 1

\* C25, amended: the lowercase range has one character more than the
\* uppercase range.  Every code (here the code of the letter of the file)
\* is the code of exactly one lowercase character and of exactly one
\* uppercase character, but for the code of the last lowercase character,
\* U+0587, which is the code of no uppercase character: the character 0x30
\* below U+0587 is outside the alphabet and, read from a file, leaves the
\* cursor at the root, where the character 0x30 below any other lowercase
\* letter is walked into the trie.
C25_OneMoreLowercase ==
    /\ Cardinality(AcceptedLower) = Cardinality(AcceptedUpper) + 1
    /\ Cardinality(WithCode(AcceptedLower, FileLetter)) = 1
    /\ Cardinality(WithCode(AcceptedUpper, FileLetter)) =
           IF FileLetter = Letters - 1 THEN 0 ELSE 1
    /\ (pc = "scan" /\ Scanned # <<>>
            /\ Scanned[Len(Scanned)] = LowerFirst + FileLetter - CaseOffset)
          => IF FileLetter = Letters - 1
                 THEN word_index = 0 /\ current = binary_tree
                 ELSE word_index > 0 /\ current # binary_tree

\* C25 witness: in the file of U+0587 the character 0x30 below it, U+0557,
\* was scanned behind the letter and ended the word.
C25_Witness ==
    /\ pc = "scan"
    /\ FileLetter = Letters - 1
    /\ Scanned = <<LowerLast, UpperLast + 1>>
    /\ current = binary_tree
    /\ SumCounts(tree) = 1

\* The letters of the run in progress that src/c/text.c has taken, in
\* lowercase.
TextFolded ==
    [k \in 1..word_index |-> canonical_case(RunInProgress[k])]

\* C26: in src/c/text.c an uppercase letter is walked along the bits of its
\* lowercase form, so that runs which differ in case only bring the cursor
\* to one node, the node their lowercase letters spell, and count it; the
\* counter of the root is never incremented.
C26_TextCaseFolding ==
    /\ tree[binary_tree].count = 0
    /\ pc \in {"scan", "fgetws"}
          => /\ word_index <= Len(RunInProgress)
             /\ current = NodeOfWord(TextFolded)

\* C27: in src/c/text.c the line print writes for a counted node at depth
\* n * 6 is the n-character word its path spells: character k, from 0, is
\* U+0561 plus the k-th group of six bits, and the text ends behind
\* character n - 1.
C27_TextPrintsPathWord ==
    pc = "done"
        => /\ {emitted[i] : i \in 1..Len(emitted)} = Counted
           /\ \A i \in 1..Len(output) :
                 emitted[i] # binary_tree
                     => /\ Len(PathOf(emitted[i])) =
                               BITS_PER_CHARACTER * Len(output[i].word)
                        /\ output[i].word = PathWord(emitted[i])

\* C28: in src/unnamed/part_001 at most MAX_WORD_SIZE characters of a run
\* are stored in word and walked into the trie, and no node is deeper than
\* MAX_WORD_SIZE * BITS_PER_CHARACTER bits.
C28_Part001Cap ==
    /\ word_index <= MAX_WORD_SIZE
    /\ Height(binary_tree) <= MAX_WORD_SIZE * BITS_PER_CHARACTER

\* C29: two runs of the Go program on the same file write the same sequence
\* of lines, words of equal counts included.
C29_GoReproducible ==
    (pc = "go_exit" /\ go.run = 2) => go.lines[1] = go.lines[2]


\* C30: every store into a word buffer is in bounds, whatever the file: the
\* stores of the tokenizer into word, those of process into str, and the
\* copy into the member word of an entry, whose count is left as collected.
C30_WritesInBounds ==
    /\ stray = {}
    /\ \A i \in 1..Len(emitted) :
          (i - 1) \in DOMAIN occurrences
              => occurrences[i - 1].count = tree[emitted[i]].count


\* Lines 97-146 for one character c, on the state st of the read loop that
\* lives outside the chunk loop (lines 81-90): the trie, the cursor, the
\* word index and the number of unique words.
ScanChar(st, c) ==
    IF classify(c) >= 0
        THEN IF CapReached(st.word_index)
                 THEN st
                 ELSE LET r == InsertBits(st.tree, st.current, classify(c),
                                          TopBit)
                      IN [st EXCEPT !.tree = r.tree,
                                    !.current = r.current,
                                    !.word_index = @ + 1]
        ELSE IF st.word_index > 0
                 THEN [st EXCEPT
                          !.unique_words =
                              IF st.tree[st.current].count = 0
                                  THEN @ + 1 ELSE @,
                          !.tree[st.current].count = WrapInt(@ + 1),
                          !.current = binary_tree,
                          !.word_index = 0]
                 ELSE [st EXCEPT !.current = binary_tree, !.word_index = 0]

\* The scan loop over the first n characters of s held in a single chunk.
RECURSIVE SingleChunk(_, _)
SingleChunk(s, n) ==
    IF n = 0
        THEN [tree |-> <<NewNode>>, current |-> binary_tree,
              word_index |-> 0, unique_words |-> 0]
        ELSE ScanChar(SingleChunk(s, n - 1), s[n])

\* C31: however fgetws splits the file into chunks, the trie, the cursor,
\* the word index and the number of unique words are, after every scanned
\* character and at the end of the read loop, those of a scan of the same
\* characters held in a single chunk.
C31_ChunkIndependent ==
    pc \in {"fgetws", "scan", "process"}
        => [tree |-> tree, current |-> current, word_index |-> word_index,
            unique_words |-> unique_words]
               = SingleChunk(Scanned, Len(Scanned))

\* A run of two letters that lies across a chunk boundary was counted once.
C31_Witness ==
    /\ pc = "process"
    /\ consumed = <<Other, LowerFirst, LowerFirst, Newline>>
    /\ unique_words = 1
    /\ tree[NodeOfWord(<<LowerFirst, LowerFirst>>)].count = 1


\* The order of the phases of main: the chunk loop (lines 92-146), process
\* (line 152), qsort (lines 159-160), the write loop (lines 165-173).
PhaseOrder ==
    {<<"fgetws", "scan">>, <<"scan", "fgetws">>, <<"fgetws", "process">>,
     <<"process", "qsort">>, <<"qsort", "write">>, <<"write", "done">>}

\* A step of main: the phase stays or moves on along PhaseOrder, and an
\* iteration of the scan loop that stays in the loop advances buffer_index
\* by one, within the chunk.
C32_Step ==
    /\ pc' # pc => <<pc, pc'>> \in PhaseOrder
    /\ (pc = "scan" /\ pc' = "scan")
           => /\ buffer_index' = buffer_index + 1
              /\ buffer_index' <= Len(buffer)

\* C32: for every finite file the program passes through the phases read,
\* collect, sort and write in this order and terminates; every iteration of
\* the scan loop advances buffer_index, the skip branch included, and the
\* trie process descends is at most MAX_WORD_SIZE * BITS_PER_CHARACTER deep.
C32_Terminates ==
    /\ [](Height(binary_tree) <= MAX_WORD_SIZE * BITS_PER_CHARACTER)
    /\ [][C32_Step]_vars
    /\ <>(pc = "done")

\* The program has ended on a file with a run longer than the cap, whose
\* characters behind the cap took the skip branch.
C32_Witness ==
    /\ pc = "done"
    /\ \E i \in RunStarts(consumed) :
          Len(RunAt(consumed, i)) > MAX_WORD_SIZE
    /\ Height(binary_tree) = MAX_WORD_SIZE * BITS_PER_CHARACTER


\* The (word, count) pairs of the lines a run of the Go program has written.
GoPairs(lines) == {<<lines[i].word, lines[i].count>> : i \in 1..Len(lines)}

\* C33: on a file in which no run has more than MAX_WORD_SIZE characters,
\* the Go program and the C program write the same set of (word, count)
\* pairs.
C33_SamePairs ==
    (/\ pc = "go_exit"
     /\ Len(go.lines) = 1
     /\ \A i \in RunStarts(consumed) :
           Len(RunAt(consumed, i)) <= MAX_WORD_SIZE)
        => GoPairs(go.lines[1]) = OutputPairs


\* Sequence a comes before sequence b in lexicographic order: a is a proper
\* prefix of b, or a has the smaller element where they first differ.
LexLess(a, b) ==
    \/ Len(a) < Len(b) /\ \A k \in 1..Len(a) : a[k] = b[k]
    \/ \E k \in 1..Min(Len(a), Len(b)) :
          /\ a[k] < b[k]
          /\ \A h \in 1..(k - 1) : a[h] = b[h]

\* C34: process collects the entries in strictly increasing lexicographic
\* order of their code sequences, a word in front of every longer word it
\* is a prefix of; the list as process leaves it is in code-point order of
\* the lowercase words.
C34_CollectedInOrder ==
    /\ pc \in {"qsort", "write", "done"}
          => \A i, j \in 1..Len(emitted) :
                i < j => LexLess(CodesOf(PathOf(emitted[i])),
                                 CodesOf(PathOf(emitted[j])))
    /\ pc = "qsort"
          => \A i, j \in DOMAIN occurrences :
                i < j => LexLess(TextOf(occurrences[i]),
                                 TextOf(occurrences[j]))

\* process has collected two words, the first of them from a node that was
\* created after the node of the second.
C34_Witness ==
    /\ pc = "qsort"
    /\ Len(emitted) = 2
    /\ emitted[1] > emitted[2]


\* C35: between two characters of the read loop the cursor is
\* BITS_PER_CHARACTER * word_index edges below the root and word_index is at
\* most MAX_WORD_SIZE, so the cursor is the root exactly when word_index
\* is 0.
C35_CursorDepth ==
    pc \in {"scan", "fgetws"}
        => /\ Len(PathOf(current)) = BITS_PER_CHARACTER * word_index
           /\ 0 <= word_index /\ word_index <= MAX_WORD_SIZE
           /\ (current = binary_tree <=> word_index = 0)

\* The scan stands behind a letter that took the skip branch, the cursor
\* at the deepest level.
C35_Witness ==
    /\ pc = "scan"
    /\ buffer_index > 0
    /\ Len(RunInProgress) > MAX_WORD_SIZE
    /\ word_index = MAX_WORD_SIZE
    /\ current # binary_tree


=============================================================================
